---- MODULE Spec2Model ----
(***************************************************************************)
(* Model of the image editor embedded in src/app.py (INDEX_HTML script,    *)
(* lines 769-816): the working canvas, the mask canvas, the original       *)
(* snapshot, the font-fit routine, the two cluster layouts and the event   *)
(* handlers.                                                               *)
(*                                                                         *)
(* Three specifications share the module:                                  *)
(*   SpecFit    - fitFontToWidth applied to bounded inputs                 *)
(*   SpecLayout - drawWatermark / drawLeftCluster geometry of one redraw   *)
(*   Spec       - the editor's event handlers                              *)
(***************************************************************************)
EXTENDS Integers, Sequences, FiniteSets, TLC

VARIABLES
    fit,            \* inputs and results of fitFontToWidth calls (SpecFit)
    lay,            \* one redraw's layout: surface size, texts, font metrics, results (SpecLayout)
    cv,             \* the working canvas: size, sampled pixels, overlays drawn on top
    maskCanvas,     \* the mask canvas: size, sampled alpha
    img,            \* the Image object the variable img refers to: source and load state
    staleLoads,     \* Image objects still loading that img no longer refers to: source |-> count
    hasImage,
    originalBitmap, \* the ImageData captured in onload, or NoBitmap (null)
    maskEnabled,
    isPainting,
    fields,         \* values of the inputs #time, #date, #dow
    brush,          \* value of the input #brush
    camera,         \* stream variable, live MediaStreams, pending getUserMedia calls, modal
    fontCtx,        \* glyph metrics of the page's font (environment)
    controls,       \* the optional control groups the user operates in this session (environment)
    ev,             \* history: the last handler that drew, changed the load state or changed a field
    alerted,        \* the last event handled raised an alert()
    ignored,        \* the last event handled was a pointer or touch event that its handler's guard turned away in the middle of a stroke
    sinceLoad,      \* history: TRUE iff no load was started and no other onload ran since the last completed onload
    srv             \* the Flask server: users table, id sequence, each browser's session cookie, requests in flight (SpecAdmin)

evars == <<cv, maskCanvas, img, staleLoads, hasImage, originalBitmap, maskEnabled,
           isPainting, fields, brush, camera, fontCtx, controls, ev, alerted, ignored, sinceLoad>>

vars == <<fit, lay, srv, cv, maskCanvas, img, staleLoads, hasImage, originalBitmap, maskEnabled,
          isPainting, fields, brush, camera, fontCtx, controls, ev, alerted, ignored, sinceLoad>>

(***************************************************************************)
(* Small helpers                                                           *)
(***************************************************************************)
Max2(a, b) == IF a >= b THEN a ELSE b
Min2(a, b) == IF a <= b THEN a ELSE b

\* clamp(n, lo, hi) = Math.max(lo, Math.min(hi, n))
clamp(n, lo, hi) == Max2(lo, Min2(hi, n))

(***************************************************************************)
(* fitFontToWidth (line 781).  measure[s] is ctx.measureText(text).width   *)
(* after ctx.font = fontTemplateFn(s): the text and the template are       *)
(* folded into the function.                                               *)
(***************************************************************************)
RECURSIVE FitWhile(_, _, _, _)
\* the while loop: while(size > minSize){ if(width <= maxWidth) return size; size -= 1 } return minSize
FitWhile(measure, size, minSize, maxWidth) ==
    IF size > minSize
    THEN IF measure[size] <= maxWidth
         THEN size
         ELSE FitWhile(measure, size - 1, minSize, maxWidth)
    ELSE minSize

RECURSIVE FitWhileNoFloor(_, _, _)
\* mutant loop: the floor is forgotten, the size keeps shrinking until the text fits
FitWhileNoFloor(measure, size, maxWidth) ==
    IF size > 0
    THEN IF measure[size] <= maxWidth
         THEN size
         ELSE FitWhileNoFloor(measure, size - 1, maxWidth)
    ELSE 0

\* mutant: no lower bound on the size
FitNoFloor(measure, startSize, minSize, maxWidth) ==
    FitWhileNoFloor(measure, startSize, maxWidth)

\* mutant: the size is decremented before the first measurement
FitSkipsStart(measure, startSize, minSize, maxWidth) ==
    FitWhile(measure, startSize - 1, minSize, maxWidth)

\* mutant: the comparison is inverted (width >= maxWidth accepted)
FitInverted(measure, startSize, minSize, maxWidth) ==
    FitWhile([s \in DOMAIN measure |-> 0 - measure[s]], startSize, minSize, 0 - maxWidth)

\* let size = startSize; while ...
fitFontToWidth(measure, startSize, minSize, maxWidth) ==
    FitWhile(measure, startSize, minSize, maxWidth)


(***************************************************************************)
(* Numbers.  Canvas x coordinates and text widths are fractional in the    *)
(* code (measureText returns a float); the model keeps them in fixed point *)
(* with SubPx units per pixel.  Math.round(n * c) is computed exactly from *)
(* the decimal constant c = num/den, except where the IEEE-754 product     *)
(* n * c falls just below an exact tie and JavaScript rounds down.         *)
(***************************************************************************)
SubPx == 1000

\* Math.round(n * num/den) for n >= 0, ties upward
Round(n, num, den) == (2 * n * num + den) \div (2 * den)

\* Math.round of a fixed-point value
RoundPx(x) == (2 * x + SubPx) \div (2 * SubPx)

\* widths in 0..8100 whose double product W * 0.58 is below the exact tie k + 0.5
TiesDown058 ==
    {25, 375, 425, 725, 775, 825, 875, 1425, 1475, 1525, 1575, 1625, 1675, 1725,
     2875, 2925, 2975, 3025, 3075, 3125, 3175, 3225, 3275, 3325, 3375, 3425, 3475,
     3525, 5725, 5775, 5825, 5875, 5925, 5975, 6025, 6075, 6125, 6175, 6225, 6275,
     6325, 6375, 6425, 6475, 6525, 6575, 6625, 6675, 6725, 6775, 6825, 6875, 6925,
     6975, 7025}

\* widths in 0..8100 whose double product W * 0.018 is below the exact tie
TiesDown018 == {750, 1750, 2750, 3250, 5250, 5750, 6250, 6750}

\* Math.round(W * 0.58)
RoundW058(W) == IF W \in TiesDown058 THEN Round(W, 58, 100) - 1 ELSE Round(W, 58, 100)

\* Math.round(W * 0.018)
RoundW018(W) == IF W \in TiesDown018 THEN Round(W, 18, 1000) - 1 ELSE Round(W, 18, 1000)

(***************************************************************************)
(* ctx.measureText(text).width with ctx.font set to `size` px.  The glyph  *)
(* advances belong to the browser's font; ctx.adv is the average advance   *)
(* per character of a 1px font, in fixed point (SubPx per pixel), chosen   *)
(* by the environment.  The result is in fixed point.                      *)
(***************************************************************************)
MeasureText(ctx, text, size) == Len(text) * size * ctx.adv

\* s |-> measured width of text at size s, for the sizes a fit can try
MeasureAt(ctx, text, startSize) == [s \in 1..startSize |-> MeasureText(ctx, text, s)]

\* the literals of the script (ASCII stand-ins of equal length for the Vietnamese text)
fullText == "Timemark"
timePart == "Time"
subText == "100% Chan thuc"
addr1 == "268B Vo Nguyen Giap, Bac My Phu, Ngu"
addr2 == "Hanh Son, Da Nang 550000"

(***************************************************************************)
(* drawWatermark (line 788): geometry of what it draws and the value it    *)
(* returns (reservedRight).  x values are fixed point, y values pixels.    *)
(***************************************************************************)
drawWatermark(ctx, W, H) ==
    LET BASE == Min2(W, H)
        padR == clamp(RoundW018(W), 8, 36)
        padB == clamp(Round(H, 28, 1000), 8, 54)
        wmFont0 == clamp(Round(BASE, 48, 1000), 14, 42)
        maxWmWidth == Round(W, 33, 100)
        wmFont == fitFontToWidth(MeasureAt(ctx, fullText, wmFont0), wmFont0, 11,
                                 maxWmWidth * SubPx)
        subFont == clamp(Round(wmFont, 53, 100), 9, 22)
        wmWidth == MeasureText(ctx, fullText, wmFont)
        timeW == MeasureText(ctx, timePart, wmFont)
        startX == (W - padR) * SubPx - wmWidth
        centerX == startX + (wmWidth \div 2)
        yBottom == H - padB
        yTop == yBottom - Round(subFont, 118, 100)
    IN  [wmFont |-> wmFont, subFont |-> subFont,
         wmWidth |-> wmWidth, timeW |-> timeW,
         subWidth |-> MeasureText(ctx, subText, subFont),
         startX |-> startX, centerX |-> centerX,
         yBottom |-> yBottom, yTop |-> yTop,
         reservedRight |-> padR + RoundPx(wmWidth) + clamp(Round(W, 28, 1000), 10, 36)]

(***************************************************************************)
(* drawLeftCluster (line 786): geometry of the address lines, the time,    *)
(* the divider and the two meta lines.                                     *)
(***************************************************************************)
\* a meta font that starts as large as the time font
MetaFontAsTime(timeFont) == timeFont

\* let metaFont = clamp(Math.round(timeFont * 0.38), 9, 34);
MetaFontStart(timeFont) == clamp(Round(timeFont, 38, 100), 9, 34)

drawLeftCluster(ctx, W, H, reservedRight, timeVal, dateText, dowText) ==
    LET BASE == Min2(W, H)
        leftMaxWidth == RoundW058(W)
        leftX == clamp(Round(W, 25, 1000), 8, 40)
        bottomPad == clamp(Round(H, 35, 1000), 8, 60)
        rightLimit == Min2(leftX + leftMaxWidth, W - reservedRight)
        maxWidth == Max2(140, rightLimit - leftX)
        addrFont0 == clamp(Round(BASE, 38, 1000), 11, 32)
        addrFont == fitFontToWidth(MeasureAt(ctx, addr1, addrFont0), addrFont0, 9,
                                   maxWidth * SubPx)
        addrLineH == Round(addrFont, 12, 10)
        addrBlockH == addrLineH * 2
        gapMetaToAddr == clamp(Round(BASE, 28, 1000), 8, 32)
        timeFont0 == clamp(Round(BASE, 82, 1000), 24, 78)
        minMetaW == Round(maxWidth, 32, 100)
        maxTimeW == Max2(70, maxWidth - minMetaW)
        timeFont == fitFontToWidth(MeasureAt(ctx, timeVal, timeFont0), timeFont0, 16,
                                   maxTimeW * SubPx)
        metaFont0 == MetaFontStart(timeFont)
        addrBottomY == H - bottomPad
        timeBaselineY == addrBottomY - addrBlockH - gapMetaToAddr
        timeW == MeasureText(ctx, timeVal, timeFont)
        gapX == clamp(Round(BASE, 16, 1000), 7, 20)
        lineX == leftX * SubPx + timeW + gapX * SubPx
        \* asc = 0.78, desc = 0.12, timeScaleY = 1.48
        lineTop == timeBaselineY - Round(timeFont, 78 * 148, 10000)
        lineBottom == timeBaselineY + Round(timeFont, 12 * 148, 10000)
        metaX == lineX + gapX * SubPx
        metaMaxW == Max2(70 * SubPx, rightLimit * SubPx - metaX)
        longer == IF Len(dateText) >= Len(dowText) THEN dateText ELSE dowText
        metaFont == fitFontToWidth(MeasureAt(ctx, longer, metaFont0), metaFont0, 9, metaMaxW)
        metaPad == Round(metaFont, 1, 10)
    IN  [leftX |-> leftX, rightLimit |-> rightLimit,
         maxWidth |-> maxWidth, maxTimeW |-> maxTimeW, metaMaxW |-> metaMaxW,
         addrFont |-> addrFont, timeFont |-> timeFont, metaFont |-> metaFont,
         addrBottomY |-> addrBottomY, addrLineH |-> addrLineH,
         timeBaselineY |-> timeBaselineY, timeW |-> timeW,
         lineX |-> lineX, lineTop |-> lineTop, lineBottom |-> lineBottom,
         lineWidth |-> Max2(2, Round(BASE, 35, 10000)),
         metaX |-> metaX,
         dateY |-> lineTop + metaFont + metaPad, dowY |-> lineBottom - metaPad,
         addr1W |-> MeasureText(ctx, addr1, addrFont),
         addr2W |-> MeasureText(ctx, addr2, addrFont),
         dateW |-> MeasureText(ctx, dateText, metaFont),
         dowW |-> MeasureText(ctx, dowText, metaFont),
         timeVal |-> timeVal, dateText |-> dateText, dowText |-> dowText]

(***************************************************************************)
(* Surfaces.  A canvas is sampled at NCells points on its horizontal       *)
(* centre line.  A sampled pixel of the working canvas records which       *)
(* source image it shows and with which alpha the blurred layer was        *)
(* composited over it; the text overlays drawn on top are kept as the      *)
(* geometry records of drawWatermark / drawLeftCluster.                    *)
(***************************************************************************)
NCells == 2
Cells == 1..NCells

NoSrc == "none"
Transparent == [src |-> NoSrc, blur |-> 0]
NoDraw == [drawn |-> FALSE]
NoBitmap == [w |-> 0 - 1, h |-> 0 - 1]

\* a canvas right after its width/height were set: transparent black, nothing drawn
BlankCanvas(w, h) ==
    [w |-> w, h |-> h, px |-> [c \in Cells |-> Transparent], wm |-> NoDraw, lc |-> NoDraw]

BlankMask(w, h) == [w |-> w, h |-> h, a |-> [c \in Cells |-> 0]]

\* sample positions (canvas coordinates)
CellX(c, w) == ((2 * c - 1) * w) \div (2 * NCells)
CellY(h) == h \div 2

\* the image files the user can pick; "X" is a file that does not decode
Sources == {"A", "B"}
BadSources == {"X"}
CameraFrame == "V"

\* naturalWidth / naturalHeight of a decoded source
SrcW(s) == CASE s = "A" -> 1920 [] s = "B" -> 100 [] s = "V" -> 640 [] OTHER -> 0
SrcH(s) == CASE s = "A" -> 1080 [] s = "B" -> 100 [] s = "V" -> 480 [] OTHER -> 0

\* img.naturalWidth / img.naturalHeight: 0 until the image is completely available
naturalWidth(image) == IF image.state = "complete" THEN SrcW(image.src) ELSE 0
naturalHeight(image) == IF image.state = "complete" THEN SrcH(image.src) ELSE 0

\* ctx.getImageData(0, 0, cv.width, cv.height) right after drawImage: size and pixels
getImageData(canvas) == [w |-> canvas.w, h |-> canvas.h, px |-> canvas.px]

\* a putImageData that composites under what is drawn: the text overlays stay
putImageDataUnder(canvas, bitmap) ==
    IF bitmap.w = canvas.w /\ bitmap.h = canvas.h
    THEN [canvas EXCEPT !.px = bitmap.px]
    ELSE canvas

\* ctx.putImageData(bitmap, 0, 0): replaces the pixels of the bitmap's rectangle,
\* text overlays included; nothing lands on a canvas without area
putImageData(canvas, bitmap) ==
    IF canvas.w = 0 \/ canvas.h = 0 \/ bitmap.w <= 0 \/ bitmap.h <= 0
    THEN canvas
    ELSE IF bitmap.w = canvas.w /\ bitmap.h = canvas.h
         THEN [canvas EXCEPT !.px = bitmap.px, !.wm = NoDraw, !.lc = NoDraw]
         ELSE [canvas EXCEPT !.px = [c \in Cells |->
                                        IF CellX(c, canvas.w) < bitmap.w /\ CellY(canvas.h) < bitmap.h
                                        THEN [src |-> "shifted", blur |-> 0]
                                        ELSE canvas.px[c]]]

\* maskCtx.clearRect(0, 0, w, h)
ClearedMask(mask) == [mask EXCEPT !.a = [c \in Cells |-> 0]]

\* a fitCanvasToImage that rescales the mask: new size, old content
fitCanvasRescalesMask(w, h) ==
    [cv |-> BlankCanvas(w, h), maskCanvas |-> [maskCanvas EXCEPT !.w = w, !.h = h]]

\* fitCanvasToImage (line 779): both canvases get the size, which resets them
fitCanvasToImage(w, h) == [cv |-> BlankCanvas(w, h), maskCanvas |-> BlankMask(w, h)]

\* maskHasSomething (line 782)
maskHasSomething(mask) ==
    IF mask.w = 0 \/ mask.h = 0 THEN FALSE ELSE \E c \in Cells : mask.a[c] > 0

\* a base drawn from the downscaled copy: every pixel comes out blurred
DrawnThroughSmall(canvas, image) ==
    IF image.state = "complete" /\ canvas.w > 0 /\ canvas.h > 0
    THEN [canvas EXCEPT !.px = [c \in Cells |-> [src |-> image.src, blur |-> 255]]]
    ELSE canvas

\* ctx.drawImage(image, 0, 0, w, h) on a cleared canvas: an image that is not
\* completely available draws nothing; a canvas without area has no pixels
DrawnImage(canvas, image) ==
    IF image.state = "complete" /\ canvas.w > 0 /\ canvas.h > 0
    THEN [canvas EXCEPT !.px = [c \in Cells |-> [src |-> image.src, blur |-> 0]]]
    ELSE canvas

\* a redaction without the "destination-in" cut: the whole blurred copy is drawn
RedactedEverywhere(canvas, image, mask) ==
    IF image.state = "complete"
    THEN [canvas EXCEPT !.px = [c \in Cells |-> [src |-> canvas.px[c].src, blur |-> 255]]]
    ELSE canvas

\* the blurred copy of the image, cut out by the mask ("destination-in") and
\* drawn over the base: weight = mask alpha
Redacted(canvas, image, mask) ==
    IF image.state = "complete"
    THEN [canvas EXCEPT !.px = [c \in Cells |-> [src |-> canvas.px[c].src, blur |-> mask.a[c]]]]
    ELSE canvas

(***************************************************************************)
(* drawBase (line 784).  drawImage throws InvalidStateError for an image   *)
(* in the broken state: the handler that called drawBase stops there, with *)
(* the canvas already cleared.                                             *)
(***************************************************************************)
drawBase(canvas, image, mask) ==
    IF image.state = "broken"
    THEN [cv |-> BlankCanvas(canvas.w, canvas.h), threw |-> TRUE]
    ELSE [cv |-> IF maskHasSomething(mask)
                 THEN Redacted(DrawnImage(BlankCanvas(canvas.w, canvas.h), image), image, mask)
                 ELSE DrawnImage(BlankCanvas(canvas.w, canvas.h), image),
          threw |-> FALSE]

(***************************************************************************)
(* formatDateDDMMYYYY (line 780).  Field values that are taken apart are   *)
(* sequences of one-character strings.                                     *)
(***************************************************************************)
RECURSIVE Split(_, _)
\* iso.split(sep): the pieces between the separators
Split(str, sep) ==
    IF \E i \in 1..Len(str) : str[i] = sep
    THEN LET i == CHOOSE k \in 1..Len(str) :
                      str[k] = sep /\ \A j \in 1..(k - 1) : str[j] # sep
         IN  <<SubSeq(str, 1, i - 1)>> \o Split(SubSeq(str, i + 1, Len(str)), sep)
    ELSE <<str>>

formatDateDDMMYYYY(iso) ==
    IF iso = <<>> THEN <<>>
    ELSE LET parts == Split(iso, "-")
         IN  IF Len(parts) # 3 THEN <<>>
             ELSE parts[3] \o <<"/">> \o parts[2] \o <<"/">> \o parts[1]

DefaultTime == "05:37"
DefaultDateText == <<"0", "5", "/", "0", "1", "/", "2", "0", "2", "6">>
DefaultDow == "Thu Nam"

\* value || fallback
OrElse(value, fallback) == IF Len(value) = 0 THEN fallback ELSE value

(***************************************************************************)
(* drawAllOverlay (line 790) past its hasImage guard: drawBase, then the   *)
(* watermark, then the left cluster laid out with the returned             *)
(* reservedRight.                                                          *)
(***************************************************************************)
drawAllOverlay(canvas, image, mask, ctx, f) ==
    LET base == drawBase(canvas, image, mask)
        W == canvas.w
        H == canvas.h
        timeVal == OrElse(f.time, DefaultTime)
        dateText == OrElse(formatDateDDMMYYYY(f.date), DefaultDateText)
        dowText == OrElse(f.dow, DefaultDow)
        wm == drawWatermark(ctx, W, H)
        lc == drawLeftCluster(ctx, W, H, wm.reservedRight, timeVal, dateText, dowText)
    IN  IF base.threw THEN base
        ELSE IF W = 0 \/ H = 0 THEN base
        ELSE [cv |-> [base.cv EXCEPT !.wm = wm, !.lc = lc], threw |-> FALSE]

(***************************************************************************)
(* The editor's state after the script has run (lines 771-775) and the     *)
(* values the events can carry.                                            *)
(***************************************************************************)
MaxLoads == 2
AllSources == Sources \cup BadSources \cup {CameraFrame}
MaxStreams == 2

NoFile == "nofile"
\* camera.stream: NoStream (null) or LiveStream (a MediaStream whose tracks run);
\* camera.leaked counts the running MediaStreams no variable refers to any more
NoStream == "null"
LiveStream == "live"
LiveStreams == camera.leaked + (IF camera.stream = LiveStream THEN 1 ELSE 0)
TimeValues == {"05:37", "12:00"}
DowValues == {"Thu Nam", "Chu Nhat"}
Today == <<"2", "0", "2", "6", "-", "1", "1", "-", "0", "1">>
\* values of #date: empty, a date picked in the date control, a date with a
\* five-digit year (the control accepts years above 9999), and what a browser
\* that shows type=date as a text box lets through
DateValues == {<<>>,
               <<"2", "0", "2", "6", "-", "0", "1", "-", "0", "5">>,
               <<"1", "2", "0", "2", "6", "-", "0", "1", "-", "0", "5">>,
               <<"2", "0", "2", "6", "-", "1", "3", "-", "4", "5">>,
               <<"2", "0", "2", "6", "/", "0", "1", "/", "0", "5">>}
BrushValues == {55, 140}
EditorAdvances == {600}
OutDist == 200

\* the handler `name` changed a canvas, the load state or a field; ran is how it
\* ended ("done", or "threw" for an uncaught exception), status the text it
\* passed to setStatus
\* src: for onload, the source of the Image object whose load event fired;
\* was: for onload, reset and clearMask, what the surfaces held when the handler
\* started; for paint, what the stroke went over
NoPre == [masked |-> FALSE, overlaid |-> FALSE, w |-> 0 - 1]
Pre == [masked |-> \E c \in Cells : maskCanvas.a[c] > 0,
        overlaid |-> cv.wm # NoDraw,
        w |-> cv.w]

EffectiveOn(name, ran, status, src, was) ==
    /\ ev' = [name |-> name, ran |-> ran, status |-> status, src |-> src, was |-> was]
    /\ alerted' = FALSE
    /\ ignored' = FALSE

Effective(name, ran, status) == EffectiveOn(name, ran, status, NoSrc, NoPre)

\* the handler returned at its guard, or changed none of those
Silent == ev' = ev /\ alerted' = FALSE /\ ignored' = FALSE

\* a pointer or touch handler that returned at its guard
Ignored == ev' = ev /\ alerted' = FALSE /\ ignored' = isPainting

\* the handler called alert() and returned
Alert == ev' = ev /\ alerted' = TRUE /\ ignored' = FALSE

EditorIdle ==
    /\ cv = BlankCanvas(300, 150)
    /\ maskCanvas = BlankMask(300, 150)
    /\ img = [src |-> NoSrc, state |-> "unavailable"]
    /\ staleLoads = [s \in AllSources |-> 0]
    /\ hasImage = FALSE
    /\ originalBitmap = NoBitmap
    /\ maskEnabled = FALSE
    /\ isPainting = FALSE
    /\ fields = [time |-> "05:37", date |-> <<>>, dow |-> "Thu Nam"]
    /\ brush = 55
    /\ camera = [stream |-> NoStream, leaked |-> 0, pending |-> 0, modal |-> FALSE]
    /\ ev = [name |-> "init", ran |-> "done", status |-> "", src |-> NoSrc, was |-> NoPre]
    /\ alerted = FALSE
    /\ ignored = FALSE
    /\ sinceLoad = FALSE

\* The file input and the render, reset, download and clear-mask buttons are
\* used in every session; a session explores one of the optional control
\* groups on top of them (a bound on the exploration, not a rule of the page):
\* the mask toggle with the brush slider and the pointer on the canvas, the
\* time and weekday fields, the date field, or the camera.
Sessions == {{"mask"}, {"time", "dow"}, {"date"}, {"camera"}}

EditorInit ==
    /\ EditorIdle
    /\ \E a \in EditorAdvances : fontCtx = [adv |-> a]
    /\ controls \in Sessions

(***************************************************************************)
(* SpecFit: the inputs are drawn in FitInit, FitCall applies the function  *)
(* (at most twice, for the same text, template, startSize and minSize).    *)
(***************************************************************************)
MaxFitSize == 3
MaxFitWidth == 2

FitSizes == 1..MaxFitSize
FitWidths == 0..MaxFitWidth
FitBudgets == (0 - 1)..MaxFitWidth

NoCall == [maxWidth |-> 0 - 2, size |-> 0]

FitIdle == fit = [measure |-> <<>>, startSize |-> 0, minSize |-> 0,
                  calls |-> 0, prev |-> NoCall, cur |-> NoCall]

LayIdle == lay = [pc |-> "idle"]

SrvIdle == srv = [pc |-> "idle"]

FitInit ==
    /\ \E m \in [FitSizes -> FitWidths], s \in FitSizes, n \in FitSizes :
        fit = [measure |-> m, startSize |-> s, minSize |-> n,
               calls |-> 0, prev |-> NoCall, cur |-> NoCall]
    /\ LayIdle
    /\ SrvIdle
    /\ EditorIdle
    /\ fontCtx = [adv |-> 600]
    /\ controls = {}

FitCall ==
    /\ fit.calls < 2
    /\ \E mw \in FitBudgets :
        fit' = [fit EXCEPT !.calls = @ + 1,
                           !.prev = fit.cur,
                           !.cur = [maxWidth |-> mw,
                                    size |-> fitFontToWidth(fit.measure, fit.startSize,
                                                            fit.minSize, mw)]]
    /\ UNCHANGED <<lay, srv, evars>>

FitNext == FitCall

SpecFit == FitInit /\ [][FitNext]_vars


Init == EditorInit /\ FitIdle /\ LayIdle /\ SrvIdle

\* a fill that replaces the alpha ("copy") instead of compositing over it
PaintAlphaReplace(a) == 242

\* maskCtx.fill() of the disc with fillStyle rgba(255,255,255,0.95), source-over, 8-bit alpha
PaintAlpha(a) == Min2(255, (242 * 255 + a * (255 - 242) + 127) \div 255)

\* paintAt (line 803): the disc of diameter `size` centred at (x, y)
paintAt(mask, x, y, size) ==
    [mask EXCEPT !.a = [c \in Cells |->
        IF 4 * ((CellX(c, mask.w) - x) * (CellX(c, mask.w) - x)
                + (CellY(mask.h) - y) * (CellY(mask.h) - y)) <= size * size
        THEN PaintAlpha(mask.a[c])
        ELSE mask.a[c]]]

\* history of a stroke at p: whether its disc went over a sample that was
\* already saturated
PrePaint(p) ==
    [over255 |-> \E c \in Cells :
                    /\ maskCanvas.a[c] = 255
                    /\ 4 * ((CellX(c, maskCanvas.w) - p[1]) * (CellX(c, maskCanvas.w) - p[1])
                            + (CellY(maskCanvas.h) - p[2]) * (CellY(maskCanvas.h) - p[2]))
                          <= brush * brush]

\* canvasPos of a pointer over the canvas
MousePoints == {<<CellX(c, cv.w), CellY(cv.h)>> : c \in Cells}
\* a touch keeps reporting to the canvas after the finger has left it
TouchPoints == MousePoints \cup {<<0 - OutDist, CellY(cv.h)>>, <<cv.w + OutDist, CellY(cv.h)>>}

\* Image objects whose load has not ended yet
RECURSIVE SumCounts(_, _)
SumCounts(f, S) ==
    IF S = {} THEN 0
    ELSE LET x == CHOOSE y \in S : TRUE IN f[x] + SumCounts(f, S \ {x})

Loading == SumCounts(staleLoads, AllSources) + (IF img.state = "loading" THEN 1 ELSE 0)

\* loadImageFromUrl (line 792) up to img.src = url: img = new Image() drops the
\* reference to the previous object, which keeps loading (and keeps its onload
\* handler) if its load has not ended
loadImageFromUrl(src) ==
    /\ Loading < MaxLoads
    /\ staleLoads' = IF img.state = "loading"
                     THEN [staleLoads EXCEPT ![img.src] = @ + 1]
                     ELSE staleLoads
    /\ img' = [src |-> src, state |-> "loading"]
    /\ sinceLoad' = FALSE

(***************************************************************************)
(* Events                                                                  *)
(***************************************************************************)
\* change on #file (line 794)
FileChange ==
    /\ \E f \in Sources \cup BadSources \cup {NoFile} :
        IF f = NoFile
        THEN Silent /\ UNCHANGED <<img, staleLoads, sinceLoad>>
        ELSE loadImageFromUrl(f) /\ Effective("file", "done", "")
    /\ UNCHANGED <<cv, maskCanvas, hasImage, originalBitmap, maskEnabled, isPainting,
                   fields, brush, camera, fontCtx, controls, fit, lay, srv>>

\* a seeding that overwrites the date at every load
SeedDateAlways(f) == [f EXCEPT !.date = Today]

\* if(!$("date").value){ ... $("date").value = <today as YYYY-MM-DD> } (line 792)
SeedDate(f) == IF f.date = <<>> THEN [f EXCEPT !.date = Today] ELSE f

\* the body of the onload handler (line 792), run when the Image object created
\* for source `loaded` has become completely available; cur is the object the
\* variable img refers to at that moment
OnLoad(loaded, cur, isCurrent) ==
    LET fitted == fitCanvasToImage(naturalWidth(cur), naturalHeight(cur))
        drawn == DrawnImage(fitted.cv, cur)
    IN  /\ maskCanvas' = fitted.maskCanvas
        /\ hasImage' = TRUE
        /\ IF cur.state = "broken"
           THEN \* ctx.drawImage throws InvalidStateError
                /\ cv' = fitted.cv
                /\ EffectiveOn("onload", "threw", "", loaded, Pre)
                /\ sinceLoad' = FALSE
                /\ UNCHANGED <<originalBitmap, fields>>
           ELSE IF drawn.w = 0 \/ drawn.h = 0
           THEN \* ctx.getImageData throws IndexSizeError
                /\ cv' = drawn
                /\ EffectiveOn("onload", "threw", "", loaded, Pre)
                /\ sinceLoad' = FALSE
                /\ UNCHANGED <<originalBitmap, fields>>
           ELSE /\ cv' = drawn
                /\ originalBitmap' = getImageData(drawn)
                /\ fields' = SeedDate(fields)
                /\ EffectiveOn("onload", "done", "loaded", loaded, Pre)
                /\ sinceLoad' = isCurrent

\* the load event of the Image object img refers to
ImageLoad ==
    /\ img.state = "loading"
    /\ img.src \notin BadSources
    /\ img' = [img EXCEPT !.state = "complete"]
    /\ OnLoad(img.src, img', TRUE)
    /\ UNCHANGED <<staleLoads, maskEnabled, isPainting, brush, camera, fontCtx, controls, fit, lay, srv>>

\* the load event of an Image object that img no longer refers to: its onload
\* handler is the same closure and reads the variable img
StaleImageLoad ==
    /\ \E s \in AllSources \ BadSources :
        /\ staleLoads[s] > 0
        /\ staleLoads' = [staleLoads EXCEPT ![s] = @ - 1]
        /\ OnLoad(s, img, FALSE)
    /\ UNCHANGED <<img, maskEnabled, isPainting, brush, camera, fontCtx, controls, fit, lay, srv>>

\* the error event of an Image object: no handler is registered
ImageError ==
    /\ \/ /\ img.state = "loading"
          /\ img.src \in BadSources
          /\ img' = [img EXCEPT !.state = "broken"]
          /\ UNCHANGED staleLoads
       \/ /\ \E s \in BadSources :
                /\ staleLoads[s] > 0
                /\ staleLoads' = [staleLoads EXCEPT ![s] = @ - 1]
          /\ UNCHANGED img
    /\ Effective("error", "done", "")
    /\ UNCHANGED <<cv, maskCanvas, hasImage, originalBitmap, maskEnabled, isPainting,
                   fields, brush, camera, fontCtx, controls, sinceLoad, fit, lay, srv>>

\* a render handler that captures the snapshot again from what it has drawn
RenderRecaptures ==
    /\ IF ~hasImage
       THEN /\ Alert
            /\ UNCHANGED <<cv, originalBitmap>>
       ELSE LET r == drawAllOverlay(cv, img, maskCanvas, fontCtx, fields)
            IN  /\ cv' = r.cv
                /\ originalBitmap' = IF r.cv.w > 0 /\ r.cv.h > 0
                                     THEN getImageData(r.cv) ELSE originalBitmap
                /\ IF r.threw THEN Effective("render", "threw", "")
                              ELSE Effective("render", "done", "rendered")
    /\ UNCHANGED <<maskCanvas, img, staleLoads, hasImage, maskEnabled, isPainting,
                   fields, brush, camera, fontCtx, controls, sinceLoad, fit, lay, srv>>

\* click on #render (line 795)
RenderClick ==
    /\ IF ~hasImage
       THEN /\ Alert
            /\ UNCHANGED cv
       ELSE LET r == drawAllOverlay(cv, img, maskCanvas, fontCtx, fields)
            IN  /\ cv' = r.cv
                /\ IF r.threw THEN Effective("render", "threw", "")
                              ELSE Effective("render", "done", "rendered")
    /\ UNCHANGED <<maskCanvas, img, staleLoads, hasImage, originalBitmap, maskEnabled, isPainting,
                   fields, brush, camera, fontCtx, controls, sinceLoad, fit, lay, srv>>

\* click on #reset (line 796)
ResetClick ==
    /\ IF ~hasImage \/ originalBitmap = NoBitmap
       THEN /\ Silent
            /\ UNCHANGED <<cv, maskCanvas>>
       ELSE /\ cv' = putImageData(cv, originalBitmap)
            /\ maskCanvas' = ClearedMask(maskCanvas)
            /\ EffectiveOn("reset", "done", "reset", NoSrc, Pre)
    /\ UNCHANGED <<img, staleLoads, hasImage, originalBitmap, maskEnabled, isPainting,
                   fields, brush, camera, fontCtx, controls, sinceLoad, fit, lay, srv>>

\* a download handler without the hasImage guard: nothing is reported
DownloadUnguarded ==
    /\ Silent
    /\ UNCHANGED <<cv, maskCanvas, img, staleLoads, hasImage, originalBitmap, maskEnabled,
                   isPainting, fields, brush, camera, fontCtx, controls, sinceLoad, fit, lay, srv>>

\* click on #download (line 797)
DownloadClick ==
    /\ IF ~hasImage THEN Alert ELSE Silent
    /\ UNCHANGED <<cv, maskCanvas, img, staleLoads, hasImage, originalBitmap, maskEnabled,
                   isPainting, fields, brush, camera, fontCtx, controls, sinceLoad, fit, lay, srv>>

\* a toggle handler that also wipes the mask
ToggleMaskClears ==
    /\ "mask" \in controls
    /\ maskEnabled' = ~maskEnabled
    /\ maskCanvas' = ClearedMask(maskCanvas)
    /\ Silent
    /\ UNCHANGED <<cv, img, staleLoads, hasImage, originalBitmap, isPainting,
                   fields, brush, camera, fontCtx, controls, sinceLoad, fit, lay, srv>>

\* click on #toggleMask (line 798)
ToggleMaskClick ==
    /\ "mask" \in controls
    /\ maskEnabled' = ~maskEnabled
    /\ Silent
    /\ UNCHANGED <<cv, maskCanvas, img, staleLoads, hasImage, originalBitmap, isPainting,
                   fields, brush, camera, fontCtx, controls, sinceLoad, fit, lay, srv>>

\* click on #clearMask (line 799)
ClearMaskClick ==
    /\ IF ~hasImage
       THEN /\ Silent
            /\ UNCHANGED <<cv, maskCanvas>>
       ELSE LET r == drawBase(cv, img, ClearedMask(maskCanvas))
            IN  /\ maskCanvas' = ClearedMask(maskCanvas)
                /\ cv' = r.cv
                /\ IF r.threw THEN EffectiveOn("clearMask", "threw", "", NoSrc, Pre)
                              ELSE EffectiveOn("clearMask", "done", "cleared", NoSrc, Pre)
    /\ UNCHANGED <<img, staleLoads, hasImage, originalBitmap, maskEnabled, isPainting,
                   fields, brush, camera, fontCtx, controls, sinceLoad, fit, lay, srv>>

\* input on #brush (line 800); the slider is shown only while the mask box is
BrushInput ==
    /\ maskEnabled
    /\ \E v \in BrushValues \ {brush} : brush' = v
    /\ Silent
    /\ UNCHANGED <<cv, maskCanvas, img, staleLoads, hasImage, originalBitmap, maskEnabled,
                   isPainting, fields, camera, fontCtx, controls, sinceLoad, fit, lay, srv>>

\* paintAt(p.x, p.y); drawBase();
PaintAndDrawBase(p) ==
    LET painted == paintAt(maskCanvas, p[1], p[2], brush)
        r == drawBase(cv, img, painted)
    IN  /\ maskCanvas' = painted
        /\ cv' = r.cv
        /\ EffectiveOn("paint", IF r.threw THEN "threw" ELSE "done", "", NoSrc, PrePaint(p))

\* a pointer can only be over a canvas that has an area; the pointer is part
\* of the mask control group
CanvasHasArea == "mask" \in controls /\ cv.w > 0 /\ cv.h > 0

\* mousedown on the canvas (line 805)
MouseDown ==
    /\ CanvasHasArea
    /\ \E p \in MousePoints :
        IF ~maskEnabled \/ ~hasImage
        THEN /\ Ignored
             /\ UNCHANGED <<cv, maskCanvas, isPainting>>
        ELSE /\ isPainting' = TRUE
             /\ PaintAndDrawBase(p)
    /\ UNCHANGED <<img, staleLoads, hasImage, originalBitmap, maskEnabled,
                   fields, brush, camera, fontCtx, controls, sinceLoad, fit, lay, srv>>

\* mouseup on window (line 806)
MouseUp ==
    /\ "mask" \in controls
    /\ isPainting' = FALSE
    /\ Silent
    /\ UNCHANGED <<cv, maskCanvas, img, staleLoads, hasImage, originalBitmap, maskEnabled,
                   fields, brush, camera, fontCtx, controls, sinceLoad, fit, lay, srv>>

\* a mousemove handler that forgets to look at maskEnabled
MouseMoveAnyMode ==
    /\ CanvasHasArea
    /\ \E p \in MousePoints :
        IF ~hasImage \/ ~isPainting
        THEN /\ Ignored
             /\ UNCHANGED <<cv, maskCanvas>>
        ELSE PaintAndDrawBase(p)
    /\ UNCHANGED <<img, staleLoads, hasImage, originalBitmap, maskEnabled, isPainting,
                   fields, brush, camera, fontCtx, controls, sinceLoad, fit, lay, srv>>

\* mousemove on the canvas (line 807)
MouseMove ==
    /\ CanvasHasArea
    /\ \E p \in MousePoints :
        IF ~maskEnabled \/ ~hasImage \/ ~isPainting
        THEN /\ Ignored
             /\ UNCHANGED <<cv, maskCanvas>>
        ELSE PaintAndDrawBase(p)
    /\ UNCHANGED <<img, staleLoads, hasImage, originalBitmap, maskEnabled, isPainting,
                   fields, brush, camera, fontCtx, controls, sinceLoad, fit, lay, srv>>

\* touchstart on the canvas (line 809)
TouchStart ==
    /\ CanvasHasArea
    /\ \E p \in MousePoints :
        IF ~maskEnabled \/ ~hasImage
        THEN /\ Ignored
             /\ UNCHANGED <<cv, maskCanvas, isPainting>>
        ELSE /\ isPainting' = TRUE
             /\ PaintAndDrawBase(p)
    /\ UNCHANGED <<img, staleLoads, hasImage, originalBitmap, maskEnabled,
                   fields, brush, camera, fontCtx, controls, sinceLoad, fit, lay, srv>>

\* touchmove on the canvas (line 810)
TouchMove ==
    /\ CanvasHasArea
    /\ \E p \in TouchPoints :
        IF ~maskEnabled \/ ~hasImage \/ ~isPainting
        THEN /\ Ignored
             /\ UNCHANGED <<cv, maskCanvas>>
        ELSE PaintAndDrawBase(p)
    /\ UNCHANGED <<img, staleLoads, hasImage, originalBitmap, maskEnabled, isPainting,
                   fields, brush, camera, fontCtx, controls, sinceLoad, fit, lay, srv>>

\* touchend on the canvas (line 811)
TouchEnd ==
    /\ "mask" \in controls
    /\ isPainting' = FALSE
    /\ Silent
    /\ UNCHANGED <<cv, maskCanvas, img, staleLoads, hasImage, originalBitmap, maskEnabled,
                   fields, brush, camera, fontCtx, controls, sinceLoad, fit, lay, srv>>

\* the user edits #time, #date or #dow: the script registers no listener on them
EditTime ==
    /\ "time" \in controls
    /\ \E v \in TimeValues \ {fields.time} : fields' = [fields EXCEPT !.time = v]
    /\ Effective("editTime", "done", "")
    /\ UNCHANGED <<cv, maskCanvas, img, staleLoads, hasImage, originalBitmap, maskEnabled,
                   isPainting, brush, camera, fontCtx, controls, sinceLoad, fit, lay, srv>>

EditDate ==
    /\ "date" \in controls
    /\ \E v \in DateValues \ {fields.date} : fields' = [fields EXCEPT !.date = v]
    /\ Effective("editDate", "done", "")
    /\ UNCHANGED <<cv, maskCanvas, img, staleLoads, hasImage, originalBitmap, maskEnabled,
                   isPainting, brush, camera, fontCtx, controls, sinceLoad, fit, lay, srv>>

EditDow ==
    /\ "dow" \in controls
    /\ \E v \in DowValues \ {fields.dow} : fields' = [fields EXCEPT !.dow = v]
    /\ Effective("editDow", "done", "")
    /\ UNCHANGED <<cv, maskCanvas, img, staleLoads, hasImage, originalBitmap, maskEnabled,
                   isPainting, brush, camera, fontCtx, controls, sinceLoad, fit, lay, srv>>

\* click on #openCamera (line 813) up to the await
OpenCameraClick ==
    /\ "camera" \in controls
    /\ LiveStreams + camera.pending < MaxStreams
    /\ camera' = [camera EXCEPT !.pending = @ + 1]
    /\ Silent
    /\ UNCHANGED <<cv, maskCanvas, img, staleLoads, hasImage, originalBitmap, maskEnabled,
                   isPainting, fields, brush, fontCtx, controls, sinceLoad, fit, lay, srv>>

\* getUserMedia resolves: stream = <the new MediaStream>; the modal is shown
GetUserMediaResolve ==
    /\ camera.pending > 0
    /\ camera' = [stream |-> LiveStream,
                  leaked |-> LiveStreams,
                  pending |-> camera.pending - 1,
                  modal |-> TRUE]
    /\ Silent
    /\ UNCHANGED <<cv, maskCanvas, img, staleLoads, hasImage, originalBitmap, maskEnabled,
                   isPainting, fields, brush, fontCtx, controls, sinceLoad, fit, lay, srv>>

\* getUserMedia rejects: the catch block alerts
GetUserMediaReject ==
    /\ camera.pending > 0
    /\ camera' = [camera EXCEPT !.pending = @ - 1]
    /\ Alert
    /\ UNCHANGED <<cv, maskCanvas, img, staleLoads, hasImage, originalBitmap, maskEnabled,
                   isPainting, fields, brush, fontCtx, controls, sinceLoad, fit, lay, srv>>

\* if(stream){ stream.getTracks().forEach(t => t.stop()); stream = null; } modal hidden
StoppedCamera ==
    [stream |-> NoStream, leaked |-> camera.leaked, pending |-> camera.pending, modal |-> FALSE]

\* click on #closeCamera (line 814); the button is inside the modal
CloseCameraClick ==
    /\ camera.modal
    /\ camera' = StoppedCamera
    /\ Silent
    /\ UNCHANGED <<cv, maskCanvas, img, staleLoads, hasImage, originalBitmap, maskEnabled,
                   isPainting, fields, brush, fontCtx, controls, sinceLoad, fit, lay, srv>>

\* click on #capture (line 815): the frame (or an empty canvas when the video
\* has no frame yet, whose data URL does not decode) goes to loadImageFromUrl
CaptureClick ==
    /\ camera.modal
    /\ \E f \in {CameraFrame} \cup BadSources : loadImageFromUrl(f)
    /\ camera' = StoppedCamera
    /\ Effective("capture", "done", "")
    /\ UNCHANGED <<cv, maskCanvas, hasImage, originalBitmap, maskEnabled,
                   isPainting, fields, brush, fontCtx, controls, fit, lay, srv>>

Next ==
    \/ FileChange \/ ImageLoad \/ StaleImageLoad \/ ImageError
    \/ RenderClick \/ ResetClick \/ DownloadClick
    \/ ToggleMaskClick \/ ClearMaskClick \/ BrushInput
    \/ MouseDown \/ MouseUp \/ MouseMove
    \/ TouchStart \/ TouchMove \/ TouchEnd
    \/ EditTime \/ EditDate \/ EditDow
    \/ OpenCameraClick \/ GetUserMediaResolve \/ GetUserMediaReject
    \/ CloseCameraClick \/ CaptureClick

Spec == Init /\ [][Next]_vars

(***************************************************************************)
(* Claims about fitFontToWidth                                             *)
(***************************************************************************)
FitValid == fit.calls > 0 /\ fit.minSize <= fit.startSize

\* C3: for minSize <= startSize the returned size s satisfies
\* minSize <= s <= startSize, and the measured width at s is <= maxWidth
\* unless the width at minSize already exceeds maxWidth.
C3_FitInRange ==
    FitValid =>
        /\ fit.minSize <= fit.cur.size
        /\ fit.cur.size <= fit.startSize
        /\ \/ fit.measure[fit.cur.size] <= fit.cur.maxWidth
           \/ fit.measure[fit.minSize] > fit.cur.maxWidth

\* a call that had to shrink below startSize and found a fitting size above the floor
C3_Witness ==
    /\ FitValid
    /\ fit.minSize < fit.cur.size
    /\ fit.cur.size < fit.startSize
    /\ fit.measure[fit.startSize] > fit.cur.maxWidth
    /\ fit.measure[fit.cur.size] <= fit.cur.maxWidth

\* reference: the sizes of [minSize, startSize] whose measured width fits
FittingSizes(measure, startSize, minSize, maxWidth) ==
    {s \in minSize..startSize : measure[s] <= maxWidth}

SetMax(S) == CHOOSE x \in S : \A y \in S : y <= x

LargestFit(measure, startSize, minSize, maxWidth) ==
    IF FittingSizes(measure, startSize, minSize, maxWidth) = {}
    THEN minSize
    ELSE SetMax(FittingSizes(measure, startSize, minSize, maxWidth))

\* C4: the returned size is the largest size of [minSize, startSize] whose
\* measured width is <= maxWidth, and exactly minSize when no size fits.
C4_FitIsLargest ==
    FitValid =>
        fit.cur.size = LargestFit(fit.measure, fit.startSize, fit.minSize, fit.cur.maxWidth)

\* no size of the range fits (not even minSize) and the call returned minSize
C4_Witness ==
    /\ FitValid
    /\ fit.minSize < fit.startSize
    /\ FittingSizes(fit.measure, fit.startSize, fit.minSize, fit.cur.maxWidth) = {}
    /\ fit.cur.size = fit.minSize

\* C5: for the same text, template, startSize and minSize, a larger
\* maxWidth never returns a smaller size.
C5_FitMonotonic ==
    (fit.calls = 2 /\ fit.prev.maxWidth <= fit.cur.maxWidth) =>
        fit.prev.size <= fit.cur.size

\* two calls with strictly growing budgets that returned strictly growing sizes
C5_Witness ==
    /\ fit.calls = 2
    /\ fit.prev.maxWidth < fit.cur.maxWidth
    /\ fit.prev.size < fit.cur.size

(***************************************************************************)
(* SpecLayout: one redraw's layout (drawAllOverlay, line 790, after        *)
(* drawBase): drawWatermark runs first and returns reservedRight, then     *)
(* drawLeftCluster is laid out with it.  The surface size, the three texts *)
(* and the font metrics are drawn in LayInit.                              *)
(***************************************************************************)
MaxTextLen == 80
LayDenseTo == 300
LayStep == 50

LayWidths == (100..LayDenseTo) \cup {w \in 100..8000 : w % LayStep = 0}
LayHeights == {100, 400, 1080, 8000}
LayAdvances == {450, 600}

\* a text of n characters
TextOfLen(n) == [i \in 1..n |-> "x"]

\* lengths of <<time, date, weekday>>: the page's defaults, the shortest and
\* the longest weekday labels, and texts up to MaxTextLen
LayTextLens ==
    {<<5, 10, 7>>, <<5, 10, 8>>, <<5, 10, 6>>, <<1, 2, 6>>,
     <<MaxTextLen, 10, 7>>, <<5, MaxTextLen, 7>>, <<5, 10, MaxTextLen>>,
     <<MaxTextLen, MaxTextLen, MaxTextLen>>}

LayInit ==
    /\ \E W \in LayWidths, H \in LayHeights, t \in LayTextLens, a \in LayAdvances :
        lay = [pc |-> "start", W |-> W, H |-> H, ctx |-> [adv |-> a],
               timeVal |-> TextOfLen(t[1]), dateText |-> TextOfLen(t[2]),
               dowText |-> TextOfLen(t[3])]
    /\ FitIdle
    /\ SrvIdle
    /\ EditorIdle
    /\ fontCtx = [adv |-> 600]
    /\ controls = {}

\* const reservedRight = drawWatermark(ctx, W, H);
LayWatermark ==
    /\ lay.pc = "start"
    /\ lay' = [pc |-> "wm", W |-> lay.W, H |-> lay.H, ctx |-> lay.ctx,
               timeVal |-> lay.timeVal, dateText |-> lay.dateText, dowText |-> lay.dowText,
               wm |-> drawWatermark(lay.ctx, lay.W, lay.H)]
    /\ UNCHANGED <<fit, srv, evars>>

\* drawLeftCluster(ctx, W, H, reservedRight, timeVal, dateText, dowText);
LayLeftCluster ==
    /\ lay.pc = "wm"
    /\ lay' = [pc |-> "done", W |-> lay.W, H |-> lay.H, ctx |-> lay.ctx,
               timeVal |-> lay.timeVal, dateText |-> lay.dateText, dowText |-> lay.dowText,
               wm |-> lay.wm,
               lc |-> drawLeftCluster(lay.ctx, lay.W, lay.H, lay.wm.reservedRight,
                                      lay.timeVal, lay.dateText, lay.dowText)]
    /\ UNCHANGED <<fit, srv, evars>>

LayNext == LayWatermark \/ LayLeftCluster

SpecLayout == LayInit /\ [][LayNext]_vars

(***************************************************************************)
(* The Flask server: users table, sessions, login and the admin routes     *)
(***************************************************************************)
\* AUTOINCREMENT ids handed out before create_user, and delete_user of a name
\* that init_db inserts again, stop being sent
MaxId == 3

Usernames == {"admin", "user", "bob"}
Roles == {"admin", "user"}
\* the browsers talking to the server, each with its own session cookie
Clients == {"a", "b"}

\* no row for a username
NoUser == [id |-> 0, role |-> "none"]
\* a session without the key "uid"
NoSession == [uid |-> 0, username |-> "", role |-> "none"]
\* no request of a browser between its SELECTs and its UPDATE or DELETE
NoReq == [op |-> "none", username |-> "", role |-> "none", uid |-> 0]
\* history: the last request was not let through by a decorator
NoAdmit == [by |-> "none", dbRole |-> "none"]

\* ensure_user(username, password, role, display_name): INSERT when the SELECT finds no row
ensure_user(db, username, role) ==
    IF db.users[username] = NoUser
        THEN [users |-> [db.users EXCEPT ![username] = [id |-> db.nextId, role |-> role]],
              nextId |-> db.nextId + 1]
        ELSE db

\* init_db(): CREATE TABLE IF NOT EXISTS, then the two ensure_user calls
init_db(db) == ensure_user(ensure_user(db, "admin", "admin"), "user", "user")

\* @app.before_request _ensure_db: the table as the request's view function finds it
BeforeRequest == init_db([users |-> srv.users, nextId |-> srv.nextId])

\* login_required: "uid" in session
login_required(sess) == sess.uid # 0

\* admin_required: redirect to /login, 403, or the view function
admin_required(sess) ==
    IF sess.uid = 0 THEN "login"
    ELSE IF sess.role # "admin" THEN "forbidden"
    ELSE "admit"

\* SELECT COUNT(*) AS c FROM users WHERE role='admin'
CountAdmins(users) == Cardinality({n \in Usernames : users[n].role = "admin"})

\* current_user(): the role of the row whose id is the session's uid, "none" without such a row
current_user(users, sess) ==
    IF \E n \in Usernames : users[n] # NoUser /\ users[n].id = sess.uid
        THEN users[CHOOSE n \in Usernames : users[n] # NoUser /\ users[n].id = sess.uid].role
        ELSE "none"

\* history: the decorator that let the request through and the row its session's uid had then
Admit(by, db, sess) == [by |-> by, dbRole |-> current_user(db.users, sess)]

\* the response: the committed table, the browser's cookie, its request in flight
Respond(db, c, sess, rq, adm, del) ==
    srv' = [pc |-> "on", users |-> db.users, nextId |-> db.nextId,
            session |-> [srv.session EXCEPT ![c] = sess],
            req |-> [srv.req EXCEPT ![c] = rq],
            admitted |-> adm, deleted |-> del]

AdminInit ==
    /\ srv = [pc |-> "on", users |-> [n \in Usernames |-> NoUser], nextId |-> 1,
              session |-> [c \in Clients |-> NoSession],
              req |-> [c \in Clients |-> NoReq],
              admitted |-> NoAdmit, deleted |-> {}]
    /\ FitIdle
    /\ LayIdle
    /\ EditorIdle
    /\ fontCtx = [adv |-> 600]
    /\ controls = {}

\* POST /login: pwOk says whether the password sent equals the row's
login_post ==
    \E c \in Clients, username \in Usernames, pwOk \in BOOLEAN :
        /\ srv.req[c] = NoReq
        /\ LET db == BeforeRequest
               row == db.users[username]
           IN  Respond(db, c,
                       IF row = NoUser \/ ~pwOk
                           THEN srv.session[c]
                           ELSE [uid |-> row.id, username |-> username, role |-> row.role],
                       NoReq, NoAdmit, srv.deleted)
        /\ UNCHANGED <<fit, lay, evars>>

\* GET /logout: session.clear()
logout ==
    \E c \in Clients :
        /\ srv.req[c] = NoReq
        /\ Respond(BeforeRequest, c, NoSession, NoReq, NoAdmit, srv.deleted)
        /\ UNCHANGED <<fit, lay, evars>>

\* GET /
index ==
    \E c \in Clients :
        /\ srv.req[c] = NoReq
        /\ LET db == BeforeRequest
               sess == srv.session[c]
           IN  Respond(db, c, sess, NoReq,
                       IF login_required(sess) THEN Admit("login_required", db, sess)
                                               ELSE NoAdmit,
                       srv.deleted)
        /\ UNCHANGED <<fit, lay, evars>>

\* GET /admin
admin ==
    \E c \in Clients :
        /\ srv.req[c] = NoReq
        /\ LET db == BeforeRequest
               sess == srv.session[c]
           IN  Respond(db, c, sess, NoReq,
                       IF admin_required(sess) = "admit" THEN Admit("admin_required", db, sess)
                                                         ELSE NoAdmit,
                       srv.deleted)
        /\ UNCHANGED <<fit, lay, evars>>

\* POST /admin/create_user: the INSERT, or the IntegrityError of the UNIQUE username passed over
admin_create_user ==
    \E c \in Clients, username \in Usernames, role \in Roles :
        /\ srv.req[c] = NoReq
        /\ srv.nextId <= MaxId
        /\ LET db == BeforeRequest
               sess == srv.session[c]
           IN  IF admin_required(sess) # "admit"
                   THEN Respond(db, c, sess, NoReq, NoAdmit, srv.deleted)
               ELSE IF db.users[username] # NoUser
                   THEN Respond(db, c, sess, NoReq, Admit("admin_required", db, sess),
                                srv.deleted)
               ELSE Respond([users |-> [db.users EXCEPT ![username] =
                                            [id |-> db.nextId, role |-> role]],
                             nextId |-> db.nextId + 1],
                            c, sess, NoReq, Admit("admin_required", db, sess),
                            srv.deleted \ {username})
        /\ UNCHANGED <<fit, lay, evars>>

\* POST /admin/set_role up to its UPDATE: the decorator, and for role "user" the
\* two SELECTs and the last-admin test.  The form's uid is the id the admin
\* page shows for the username.
admin_set_role_check ==
    \E c \in Clients, username \in Usernames, role \in Roles :
        /\ srv.req[c] = NoReq
        /\ LET db == BeforeRequest
               sess == srv.session[c]
               admins == CountAdmins(db.users)
               target == db.users[username]
           IN  IF admin_required(sess) # "admit"
                   THEN Respond(db, c, sess, NoReq, NoAdmit, srv.deleted)
               ELSE IF role = "user" /\ target # NoUser /\ target.role = "admin" /\ admins <= 1
                   THEN Respond(db, c, sess, NoReq, Admit("admin_required", db, sess),
                                srv.deleted)
               ELSE Respond(db, c, sess,
                            [op |-> "set_role", username |-> username, role |-> role,
                             uid |-> target.id],
                            Admit("admin_required", db, sess), srv.deleted)
        /\ UNCHANGED <<fit, lay, evars>>

\* POST /admin/set_role from its UPDATE on: UPDATE, commit, and the session of
\* an admin who changed their own role
admin_set_role_update ==
    \E c \in Clients :
        /\ srv.req[c].op = "set_role"
        /\ LET rq == srv.req[c]
               sess == srv.session[c]
               users == IF srv.users[rq.username] = NoUser
                            THEN srv.users
                            ELSE [srv.users EXCEPT ![rq.username].role = rq.role]
           IN  Respond([users |-> users, nextId |-> srv.nextId], c,
                       IF rq.uid # 0 /\ sess.uid = rq.uid
                           THEN IF rq.role # "admin" THEN NoSession
                                                     ELSE [sess EXCEPT !.role = rq.role]
                           ELSE sess,
                       NoReq, srv.admitted, srv.deleted)
        /\ UNCHANGED <<fit, lay, evars>>

\* POST /admin/delete_user up to its DELETE: the decorator, the SELECT of the
\* target and, for an admin target, the count and the last-admin test
admin_delete_user_check ==
    \E c \in Clients, username \in Usernames :
        /\ srv.req[c] = NoReq
        /\ username \in {"admin", "user"} => srv.nextId <= MaxId
        /\ LET db == BeforeRequest
               sess == srv.session[c]
               target == db.users[username]
               admins == CountAdmins(db.users)
           IN  IF admin_required(sess) # "admit"
                   THEN Respond(db, c, sess, NoReq, NoAdmit, srv.deleted)
               ELSE IF target # NoUser /\ target.role = "admin" /\ admins <= 1
                   THEN Respond(db, c, sess, NoReq, Admit("admin_required", db, sess),
                                srv.deleted)
               ELSE Respond(db, c, sess,
                            [op |-> "delete_user", username |-> username, role |-> "none",
                             uid |-> target.id],
                            Admit("admin_required", db, sess), srv.deleted)
        /\ UNCHANGED <<fit, lay, evars>>

\* POST /admin/delete_user from its DELETE on: DELETE, commit, and the session
\* of an admin who deleted their own account
admin_delete_user_delete ==
    \E c \in Clients :
        /\ srv.req[c].op = "delete_user"
        /\ LET rq == srv.req[c]
               sess == srv.session[c]
           IN  Respond([users |-> [srv.users EXCEPT ![rq.username] = NoUser],
                        nextId |-> srv.nextId], c,
                       IF rq.uid # 0 /\ sess.uid = rq.uid THEN NoSession ELSE sess,
                       NoReq, srv.admitted,
                       IF srv.users[rq.username] # NoUser
                           THEN srv.deleted \cup {rq.username}
                           ELSE srv.deleted)
        /\ UNCHANGED <<fit, lay, evars>>

AdminNext ==
    \/ login_post
    \/ logout
    \/ index
    \/ admin
    \/ admin_create_user
    \/ admin_set_role_check
    \/ admin_set_role_update
    \/ admin_delete_user_check
    \/ admin_delete_user_delete

SpecAdmin == AdminInit /\ [][AdminNext]_vars

(***************************************************************************)
(* Claims about the layout coupling                                        *)
(***************************************************************************)
\* rightmost x (fixed point) drawn by the left cluster: the two address
\* lines, the time, the divider stroke and the two meta lines
LeftClusterRight(lc) ==
    Max2(Max2(lc.leftX * SubPx + Max2(lc.addr1W, lc.addr2W),
              lc.leftX * SubPx + lc.timeW),
         Max2(lc.lineX + (lc.lineWidth * SubPx) \div 2,
              lc.metaX + Max2(lc.dateW, lc.dowW)))

\* C1: for every surface width from 100 to 8000 and texts of up to 80
\* characters, the rightmost x drawn by the left cluster plus reservedRight
\* does not exceed the surface width.
C1_NoOverlap ==
    lay.pc = "done" =>
        LeftClusterRight(lay.lc) + lay.wm.reservedRight * SubPx <= lay.W * SubPx

\* C2: the width budgets the left cluster fits its texts against end at
\* W - reservedRight: leftX + maxWidth, leftX + maxTimeW and
\* metaX + metaMaxW are all <= W - reservedRight.
C2_BudgetWithinReserve ==
    lay.pc = "done" =>
        /\ lay.lc.leftX + lay.lc.maxWidth <= lay.W - lay.wm.reservedRight
        /\ lay.lc.leftX + lay.lc.maxTimeW <= lay.W - lay.wm.reservedRight
        /\ lay.lc.metaX + lay.lc.metaMaxW <= (lay.W - lay.wm.reservedRight) * SubPx

(***************************************************************************)
(* Claims about the surfaces                                               *)
(***************************************************************************)
AllTransparent(mask) == \A c \in Cells : mask.a[c] = 0

\* the composite of the original snapshot, the mask and the overlay fields:
\* the snapshot's pixels, the blurred layer weighted by the mask, the
\* watermark and the left cluster laid out for the snapshot's size
SnapshotComposite(bitmap, mask, ctx, f) ==
    [w |-> bitmap.w, h |-> bitmap.h,
     px |-> [c \in Cells |-> [src |-> bitmap.px[c].src, blur |-> mask.a[c]]],
     wm |-> drawWatermark(ctx, bitmap.w, bitmap.h),
     lc |-> drawLeftCluster(ctx, bitmap.w, bitmap.h,
                            drawWatermark(ctx, bitmap.w, bitmap.h).reservedRight,
                            OrElse(f.time, DefaultTime),
                            OrElse(formatDateDDMMYYYY(f.date), DefaultDateText),
                            OrElse(f.dow, DefaultDow))]

\* C6: the working surface a redraw leaves is a function of the original
\* snapshot, the mask and the overlay fields alone: after every redraw it
\* equals the composite of those three.
C6_RedrawFromSnapshot ==
    (ev.name = "render" /\ originalBitmap # NoBitmap) =>
        cv = SnapshotComposite(originalBitmap, maskCanvas, fontCtx, fields)

\* C7: after an image is loaded and any sequence of paint, clear-mask,
\* paint-mode toggle and render operations, a reset leaves the working
\* surface equal to the original snapshot, with nothing drawn over it, and
\* the mask fully transparent.
C7_ResetRestores ==
    (ev.name = "reset" /\ sinceLoad) =>
        /\ getImageData(cv) = originalBitmap
        /\ cv.wm = NoDraw
        /\ cv.lc = NoDraw
        /\ AllTransparent(maskCanvas)

\* a reset that found the overlays drawn and the mask painted
C7_Witness ==
    /\ ev.name = "reset"
    /\ sinceLoad
    /\ ev.was.masked
    /\ ev.was.overlaid
    /\ getImageData(cv) = originalBitmap

\* C8: the original snapshot is written only by the load handler: every
\* step that changes originalBitmap is a step of an onload handler (paint,
\* clear-mask, render, reset, download, toggle, field edits and the camera
\* events leave it unchanged).
C8_SnapshotWrittenOnlyByLoad ==
    [][originalBitmap' # originalBitmap => (ImageLoad \/ StaleImageLoad)]_vars

\* a redraw has redacted the working surface while the snapshot is in place
C8_Witness ==
    /\ ev.name = "render"
    /\ ev.ran = "done"
    /\ originalBitmap # NoBitmap
    /\ \E c \in Cells : cv.px[c].blur > 0
    /\ \A c \in Cells : originalBitmap.px[c].blur = 0

\* C9: after the load of a source S completes, from any prior state, the
\* working surface and the mask have S's decoded size, the working surface
\* holds S's pixels, the original snapshot equals S's pixels and the mask
\* is fully transparent.
C9_LoadInstallsSource ==
    ev.name = "onload" =>
        /\ cv = [BlankCanvas(SrcW(ev.src), SrcH(ev.src))
                    EXCEPT !.px = [c \in Cells |-> [src |-> ev.src, blur |-> 0]]]
        /\ originalBitmap = getImageData(cv)
        /\ maskCanvas = BlankMask(SrcW(ev.src), SrcH(ev.src))

\* C10: the mask canvas always has the width and height of the working
\* canvas, and a resize (the load handler) leaves the mask empty, whatever
\* it held before.
C10_MaskMatchesSurface ==
    /\ maskCanvas.w = cv.w
    /\ maskCanvas.h = cv.h
    /\ (ev.name = "onload" => AllTransparent(maskCanvas))

\* a load handler that found a painted mask on a surface of another size
C10_Witness ==
    /\ ev.name = "onload"
    /\ ev.was.masked
    /\ ev.was.w # cv.w
    /\ cv.w > 0
    /\ maskCanvas.w = cv.w
    /\ AllTransparent(maskCanvas)

(***************************************************************************)
(* Claims about the events                                                 *)
(***************************************************************************)
\* what a full redraw of the present state would leave on the working surface
FullRedraw == drawAllOverlay(cv, img, maskCanvas, fontCtx, fields).cv

\* C11: every painting event accepted in paint mode updates the mask and is
\* followed by a full redraw: when the event has been handled the working
\* surface holds the base image, the redaction, the watermark and the left
\* cluster.
C11_PaintThenFullRedraw ==
    (ev.name = "paint" /\ ev.ran = "done") =>
        /\ maskHasSomething(maskCanvas)
        /\ cv.wm # NoDraw
        /\ cv.lc # NoDraw
        /\ cv = FullRedraw

\* C12: after a file selection has been handled (its load event included) and
\* after an edit of the time, date or weekday field, the working surface is
\* the composite of the current image, the mask and the current field values.
C12_EventThenRedraw ==
    (/\ ev.name \in {"onload", "editTime", "editDate", "editDow"}
     /\ ev.ran = "done"
     /\ hasImage
     /\ sinceLoad) =>
        cv = SnapshotComposite(originalBitmap, maskCanvas, fontCtx, fields)

\* C13: with no image loaded (no load event has been handled), a click on
\* render and a click on download each report the condition with an alert
\* and leave the working surface, the original snapshot and the mask
\* unchanged; the page goes on as before.
C13_NoImageReported ==
    [][(~hasImage /\ (RenderClick \/ DownloadClick)) =>
            /\ alerted'
            /\ cv' = cv
            /\ originalBitmap' = originalBitmap
            /\ maskCanvas' = maskCanvas
            /\ hasImage' = hasImage]_vars

\* the alert is up, no image is loaded and the surfaces are as the page made them
C13_Witness ==
    /\ alerted
    /\ ~hasImage
    /\ cv = BlankCanvas(300, 150)
    /\ originalBitmap = NoBitmap

\* C14: a click on reset with no image loaded changes no surface and no mask,
\* and the condition is reported to the user (an alert or a status message).
C14_ResetWithoutImage ==
    [][(~hasImage /\ ResetClick) =>
            /\ cv' = cv
            /\ maskCanvas' = maskCanvas
            /\ originalBitmap' = originalBitmap
            /\ (alerted' \/ (ev' # ev /\ ev'.status # ""))]_vars

\* C15: whenever the mask is empty (every alpha sample zero) the composited
\* base carries no redaction and, with the loaded image current, equals the
\* un-redacted image pixel for pixel; so after clear-mask, reset or a new
\* load the composite shows no redaction.
C15_EmptyMaskNoRedaction ==
    (/\ ev.name \in {"render", "clearMask", "paint"}
     /\ ev.ran = "done"
     /\ AllTransparent(maskCanvas)) =>
        /\ \A c \in Cells : cv.px[c].blur = 0
        /\ sinceLoad => cv.px = originalBitmap.px

\* clear-mask found a painted mask and has redrawn the base without it
C15_Witness ==
    /\ ev.name = "clearMask"
    /\ ev.ran = "done"
    /\ ev.was.masked
    /\ sinceLoad
    /\ AllTransparent(maskCanvas)
    /\ cv.px = originalBitmap.px

\* C16: in every state where paint mode is off or no image is loaded, every
\* pointer or touch event (down, move, up/end) leaves the mask unchanged: a
\* step from such a state that changes the mask is none of these events.
C16_PaintOnlyInPaintMode ==
    [][((~maskEnabled \/ ~hasImage) /\ maskCanvas' # maskCanvas) =>
            ~(MouseDown \/ MouseMove \/ MouseUp \/ TouchStart \/ TouchMove \/ TouchEnd)]_vars

\* paint mode was switched off in the middle of a stroke and the next pointer
\* event was turned away, the painted mask still in place
C16_Witness ==
    /\ ignored
    /\ hasImage
    /\ ~maskEnabled
    /\ isPainting
    /\ maskHasSomething(maskCanvas)

\* C17: a paint whose x or y lies outside the surface is clamped to the
\* surface, painting the disc at the nearest in-bounds point, so every
\* accepted paint leaves the mask non-empty.
C17_PaintLeavesMark ==
    (ev.name = "paint" /\ ev.ran = "done") => maskHasSomething(maskCanvas)

(***************************************************************************)
(* Claims about the date text                                              *)
(***************************************************************************)
DigitChars == <<"0", "1", "2", "3", "4", "5", "6", "7", "8", "9">>
IsDigit(ch) == \E n \in 1..10 : DigitChars[n] = ch
DigitVal(ch) == (CHOOSE n \in 1..10 : DigitChars[n] = ch) - 1
TwoDigits(str, i) == 10 * DigitVal(str[i]) + DigitVal(str[i + 1])
FourDigits(str, i) == 100 * TwoDigits(str, i) + TwoDigits(str, i + 2)
IsLeap(y) == (y % 4 = 0 /\ y % 100 # 0) \/ y % 400 = 0
DaysIn(y, m) ==
    IF m = 2 THEN (IF IsLeap(y) THEN 29 ELSE 28)
    ELSE IF m \in {4, 6, 9, 11} THEN 30 ELSE 31

\* a well-formed YYYY-MM-DD calendar date
WellFormedDate(iso) ==
    /\ Len(iso) = 10
    /\ iso[5] = "-"
    /\ iso[8] = "-"
    /\ \A i \in {1, 2, 3, 4, 6, 7, 9, 10} : IsDigit(iso[i])
    /\ TwoDigits(iso, 6) \in 1..12
    /\ TwoDigits(iso, 9) \in 1..DaysIn(FourDigits(iso, 1), TwoDigits(iso, 6))

\* DD/MM/YYYY of a well-formed YYYY-MM-DD
AsDDMMYYYY(iso) == SubSeq(iso, 9, 10) \o <<"/">> \o SubSeq(iso, 6, 7) \o <<"/">> \o SubSeq(iso, 1, 4)

\* C18: the date text a redraw draws is the default "05/01/2026" when the
\* date field is empty or is not a well-formed YYYY-MM-DD calendar date, and
\* DD/MM/YYYY of the field's value when it is; no other text is ever drawn.
C18_DateTextOrDefault ==
    (ev.name = "render" /\ ev.ran = "done" /\ cv.lc # NoDraw) =>
        cv.lc.dateText = IF WellFormedDate(fields.date)
                         THEN AsDDMMYYYY(fields.date)
                         ELSE DefaultDateText

(***************************************************************************)
(* Claims about the redraw and the image object                            *)
(***************************************************************************)
\* C19: every redraw with an image loaded performs all of its steps, in
\* order and each once: clear and draw base, the redaction pass only if the
\* mask is non-empty, drawWatermark, then drawLeftCluster with the
\* reservedRight that this redraw's drawWatermark returned.  (A handler runs
\* to completion, so no other event is handled in between.)
C19_RedrawSteps ==
    (ev.name = "render" /\ hasImage /\ cv.w > 0 /\ cv.h > 0) =>
        /\ ev.ran = "done"
        /\ (\E c \in Cells : cv.px[c].blur > 0) => maskHasSomething(maskCanvas)
        /\ cv.wm = drawWatermark(fontCtx, cv.w, cv.h)
        /\ cv.lc = drawLeftCluster(fontCtx, cv.w, cv.h, cv.wm.reservedRight,
                                   OrElse(fields.time, DefaultTime),
                                   OrElse(formatDateDDMMYYYY(fields.date), DefaultDateText),
                                   OrElse(fields.dow, DefaultDow))

\* C20: whenever hasImage is true, the image object that drawBase draws is
\* completely available, is the one the original snapshot was captured from,
\* and has the dimensions of the working surface and of the mask; also while
\* a new load is under way and when a second load starts before the first
\* one's load event.
C20_ImageIsTheLoadedOne ==
    hasImage =>
        /\ img.state = "complete"
        /\ originalBitmap # NoBitmap
        /\ \A c \in Cells : originalBitmap.px[c].src = img.src
        /\ cv.w = naturalWidth(img) /\ cv.h = naturalHeight(img)
        /\ maskCanvas.w = naturalWidth(img) /\ maskCanvas.h = naturalHeight(img)

(***************************************************************************)
(* Claims about the redaction and the mask                                 *)
(***************************************************************************)
\* the base image as drawBase draws it before any redaction
UnredactedBase == DrawnImage(BlankCanvas(cv.w, cv.h), img)

\* C21: the redaction pass changes only pixels under the mask: after a
\* drawBase with a non-empty mask, every pixel whose mask alpha is 0 equals
\* the corresponding pixel of the un-redacted base image.
C21_RedactionOnlyUnderMask ==
    (/\ ev.name \in {"paint", "render", "clearMask"}
     /\ ev.ran = "done"
     /\ maskHasSomething(maskCanvas)) =>
        \A c \in Cells : maskCanvas.a[c] = 0 => cv.px[c] = UnredactedBase.px[c]

\* a stroke has blurred one sample and left another, outside the brush, as the image has it
C21_Witness ==
    /\ ev.name = "paint"
    /\ ev.ran = "done"
    /\ img.state = "complete"
    /\ \E c \in Cells : maskCanvas.a[c] > 0 /\ cv.px[c].blur > 0
    /\ \E c \in Cells : maskCanvas.a[c] = 0 /\ cv.px[c] = [src |-> img.src, blur |-> 0]

\* C22: the mask is changed only by paint, clear-mask, reset and image load:
\* every step that changes a mask sample or the mask's size is a painting
\* event, a clear-mask click, a reset click or a load handler (render,
\* download, toggle, brush, field edits and the camera events change nothing).
C22_MaskWriters ==
    [][maskCanvas' # maskCanvas =>
            \/ MouseDown \/ MouseMove \/ TouchStart \/ TouchMove
            \/ ClearMaskClick \/ ResetClick
            \/ ImageLoad \/ StaleImageLoad]_vars

\* paint mode was switched off and a render has run, the painted mask still in place
C22_Witness ==
    /\ ev.name = "render"
    /\ ev.ran = "done"
    /\ ~maskEnabled
    /\ maskHasSomething(maskCanvas)

\* C23: painting accumulates on the 8-bit mask alpha: a painting event never
\* lowers the alpha of a mask sample and leaves a saturated sample (255) at
\* 255, for any sequence of strokes; the same holds of the compositing
\* arithmetic for every 8-bit alpha (a fact about PaintAlpha alone, evaluated
\* in the states before the first event).
C23_PaintAccumulates ==
    /\ [][(/\ maskCanvas' # maskCanvas
            /\ \E c \in Cells : \/ maskCanvas'.a[c] < maskCanvas.a[c]
                                \/ (maskCanvas.a[c] = 255 /\ maskCanvas'.a[c] # 255)) =>
            ~(MouseDown \/ MouseMove \/ TouchStart \/ TouchMove)]_vars
    /\ [](ev.name = "init" => \A a \in 0..255 : PaintAlpha(a) >= a /\ PaintAlpha(a) <= 255)

\* a stroke went over a saturated sample, which is still saturated
C23_Witness ==
    /\ ev.name = "paint"
    /\ ev.was.over255
    /\ \E c \in Cells : maskCanvas.a[c] = 255

(***************************************************************************)
(* Claims about the layout of the watermark and of the meta block          *)
(***************************************************************************)
\* C24: reservedRight is the horizontal extent the watermark occupies from
\* the right edge: the brand word (startX .. startX + wmWidth) and the
\* centred subtitle (centerX -/+ subWidth / 2) lie between W - reservedRight
\* and W, for every surface size.
C24_WatermarkWithinReserve ==
    lay.pc \in {"wm", "done"} =>
        LET wm == lay.wm
            leftEdge == (lay.W - wm.reservedRight) * SubPx
            rightEdge == lay.W * SubPx
        IN  /\ wm.reservedRight
                 = clamp(RoundW018(lay.W), 8, 36) + RoundPx(wm.wmWidth)
                   + clamp(Round(lay.W, 28, 1000), 10, 36)
            /\ wm.startX >= leftEdge
            /\ wm.startX + wm.wmWidth <= rightEdge
            /\ 2 * wm.centerX - wm.subWidth >= 2 * leftEdge
            /\ 2 * wm.centerX + wm.subWidth <= 2 * rightEdge

\* C25: for every surface size and every fitted time and meta font size the
\* two meta lines lie inside the divider's vertical span, the date above the
\* weekday without overlap: lineTop < dateY <= dowY - metaFont and
\* dowY <= lineBottom.
C25_MetaInsideDivider ==
    lay.pc = "done" =>
        /\ lay.lc.lineTop < lay.lc.dateY
        /\ lay.lc.dateY <= lay.lc.dowY - lay.lc.metaFont
        /\ lay.lc.dowY <= lay.lc.lineBottom

\* the tightest case: the time font at its floor of 16 and the meta font at
\* its floor of 9, one pixel to spare between the two lines
C25_Witness ==
    /\ lay.pc = "done"
    /\ lay.lc.timeFont = 16
    /\ lay.lc.metaFont = 9
    /\ lay.lc.dateY = lay.lc.dowY - lay.lc.metaFont - 1

(***************************************************************************)
(* Claims about the overlay fields and the camera                          *)
(***************************************************************************)
\* C26: loading an image never changes the time or weekday field and never
\* changes a date field that is already set: a step that does is no part of
\* a load (file selection, capture, load or error event); a load writes the
\* date field only when it is empty.
C26_LoadKeepsFields ==
    [][(\/ fields'.time # fields.time
        \/ fields'.dow # fields.dow
        \/ (fields.date # <<>> /\ fields'.date # fields.date)) =>
            ~(FileChange \/ CaptureClick \/ ImageLoad \/ StaleImageLoad \/ ImageError)]_vars

\* a load has completed with a date the user had set before, which is still there
C26_Witness ==
    /\ ev.name = "onload"
    /\ ev.ran = "done"
    /\ fields.date # <<>>
    /\ fields.date # Today

\* C30: after a closeCamera or capture event has been handled, no camera
\* stream obtained by openCamera is still live, for every interleaving of
\* openCamera clicks, getUserMedia completions, close and capture events.
C30_NoLiveStreamAfterClose ==
    [][(CloseCameraClick \/ CaptureClick) =>
            (camera'.stream = NoStream /\ camera'.leaked = 0)]_vars

(***************************************************************************)
(* Claims about the users table and the sessions                           *)
(***************************************************************************)
\* C27: once the table has been initialised, after every sequence and every
\* interleaving of /admin/set_role and /admin/delete_user requests the users
\* table holds at least one row whose role is 'admin'.
C27_AdminRemains ==
    srv.nextId > 1 => CountAdmins(srv.users) >= 1

\* C28: a request let through by admin_required comes from a session whose
\* uid has a row with role 'admin' in the users table at the time of the
\* request, and a request let through by login_required from a session whose
\* uid still has a row.
C28_AdmittedUserIsCurrent ==
    /\ srv.admitted.by = "admin_required" => srv.admitted.dbRole = "admin"
    /\ srv.admitted.by = "login_required" => srv.admitted.dbRole # "none"

\* C29: a username removed by /admin/delete_user and not created again
\* through /admin/create_user since has no row in the users table (so that
\* POST /login finds no row for it).
C29_DeletedStaysAbsent ==
    \A n \in srv.deleted : srv.users[n] = NoUser


====
